---- MODULE Spec2Model ----
(***************************************************************************)
(* Weather viewer of f1-race-replay (src/src/gui/weather_viewer.py):       *)
(* the radar widget (rain blobs, sweep angle, current weather fields),     *)
(* the weather history and the connection status display of WeatherViewer, *)
(* driven by the callbacks of the Qt event loop: the 50 ms timer           *)
(* (animate), the stream client's data_received signal (on_data_received)  *)
(* and its connection_status signal (on_connection_status), and the radar  *)
(* widget's repaint (paintEvent).  All run on the GUI thread, one at a     *)
(* time, so each callback is one atomic step.                              *)
(*                                                                         *)
(* Numbers.  blob['life'] is a float that starts at 1.0 and loses 0.01 per *)
(* update; the model counts it in hundredths (100, 99, ...).  In IEEE      *)
(* doubles the value after k subtractions is > 0 for k <= 99 and is        *)
(* -7.5e-16 for k = 100, so "life > 0" on the float and on the count of    *)
(* hundredths agree at every step.  Angles are whole degrees; distances    *)
(* and sizes are tenths.  Weather values are naturals.                     *)
(***************************************************************************)
EXTENDS Integers, Sequences, FiniteSets, TLC

VARIABLES
    wind_speed,        \* WeatherRadarWidget.wind_speed
    wind_direction,    \* WeatherRadarWidget.wind_direction
    rain_state,        \* WeatherRadarWidget.rain_state
    humidity,          \* WeatherRadarWidget.humidity
    air_temp,          \* WeatherRadarWidget.air_temp
    track_temp,        \* WeatherRadarWidget.track_temp
    sweep_angle,       \* WeatherRadarWidget.sweep_angle
    rain_blobs,        \* WeatherRadarWidget.rain_blobs, oldest first
    weather_history,   \* WeatherViewer.weather_history
    current_weather,   \* WeatherViewer.current_weather
    track_line,        \* TrendGraphWidget.ax_temp: the points of the 'Track' line
    air_line,          \* TrendGraphWidget.ax_temp: the points of the 'Air' line
    humid_line,        \* TrendGraphWidget.ax_humid: the points of the 'Humidity' line
    window_title,      \* the bracketed part of the window title
    status_bar,        \* the text of the status label
    ticks,             \* observer: timer callbacks so far, counted up to TickCap
    n_samples,         \* observer: weather-bearing messages delivered so far
    last_event,        \* observer: the callback that ran last
    last_data,         \* observer: the argument of the last on_data_received
    last_status,       \* observer: the argument of the last on_connection_status
    prev_presented,    \* observer: what the window presented before the last
                       \* callback, when that was on_connection_status
    steady_steps,      \* observer: see SteadyAfterSample
    paint_result,      \* observer: how the last paintEvent ended ("none" before the first)
    paint_radius,      \* observer: the local radius of the last paintEvent
    arrow_len          \* observer: the local arrow_len of the last paintEvent, in
                       \* twentieths of a pixel, as <<arrow_len>>; <<>> when that
                       \* paintEvent computed none

vars == <<wind_speed, wind_direction, rain_state, humidity, air_temp, track_temp,
          sweep_angle, rain_blobs, weather_history, current_weather,
          track_line, air_line, humid_line, window_title, status_bar, ticks, n_samples, last_event, last_data,
          last_status, prev_presented, steady_steps, paint_result, paint_radius, arrow_len>>

radar_fields == <<wind_speed, wind_direction, rain_state, humidity, air_temp, track_temp>>

chart_lines == <<track_line, air_line, humid_line>>

paint_state == <<paint_result, paint_radius, arrow_len>>

-----------------------------------------------------------------------------
(* Program constants *)

\* len(self.rain_blobs) < 20
MaxBlobs == 20

\* 'life': 1.0, in hundredths
LifeFull == 100

\* blob['life'] -= 0.01, in hundredths
Decay == 1

\* (self.sweep_angle + 5) % 360
SweepStep == 5

FullCircle == 360

\* radius = min(w, h) // 2 - 20
RadiusMargin == 20

\* self.wind_speed / 20.0: the wind speed whose arrow would span the radius
WindFullScale == 20

\* radius * 0.8, in twentieths of the radius
ArrowCap == 16

\* Python's None, the value of dict.get(key) for a key the dict lacks.  Weather
\* values of the model are naturals, so -1 is no weather value.
None == -1

-----------------------------------------------------------------------------
(* Bounds of the explored runs *)

\* messages carrying weather delivered in a run of Spec
MaxSamples == 3

\* timer callbacks in a run of Spec
MaxTicks == 2

\* messages carrying weather delivered in a run of LongSpec
MaxLongSamples == 121

\* timer callbacks in a run of LongSpec
MaxLongTicks == 1

\* messages carrying weather delivered in a run of FairSpec
MaxFairSamples == 2

\* messages carrying weather delivered in a run of PaintSpec
MaxPaintSamples == 2

\* timer callbacks in a run of PaintSpec
MaxPaintTicks == 1

\* messages carrying weather delivered in a run of ChartSpec
MaxChartSamples == 5

\* timer callbacks in a run of ChartSpec
MaxChartTicks == 1

\* messages carrying weather delivered in a run of SweepSpec
MaxSweepSamples == 1

\* timer callbacks in a run of SweepSpec: two past a full turn of the sweep
MaxSweepTicks == 74

\* the observer ticks stops counting here (only runs with unbounded ticks get there)
TickCap == 80

-----------------------------------------------------------------------------
(* Python dicts are functions; a key the dict lacks is outside its DOMAIN. *)

\* d.get(k, default)
Get(d, k, default) == IF k \in DOMAIN d THEN d[k] ELSE default

\* k in d
HasKey(d, k) == k \in DOMAIN d

-----------------------------------------------------------------------------
(* WeatherRadarWidget._update_rain_blobs *)

\* mutant: the intensity is set whatever the rain state
IntensityAlways(rain) == 1

\* mutant: every rain state other than DRY counts as rain
IntensityUnlessDry(rain) == IF rain = "DRY" THEN 0 ELSE 1

\* intensity = 1.0 if rain_state == 'RAINING' else 0
Intensity(rain) == IF rain = "RAINING" THEN 1 ELSE 0

\* the appended dict; rnd holds the three random.uniform draws
NewBlob(rnd) == [angle |-> rnd.angle, dist |-> rnd.dist, size |-> rnd.size, life |-> LifeFull]

\* mutant: no spawn while the window presents Disconnected
SpawnBlobsGated(blobs, rain, rnd) ==
    IF Intensity(rain) > 0 /\ Len(blobs) < MaxBlobs
       /\ status_bar # "OFFLINE - WAITING FOR SESSION"
    THEN Append(blobs, NewBlob(rnd))
    ELSE blobs

\* mutant: the cap test off by one (<= for <)
SpawnBlobsOffByOne(blobs, rain, rnd) ==
    IF Intensity(rain) > 0 /\ Len(blobs) <= MaxBlobs
    THEN Append(blobs, NewBlob(rnd))
    ELSE blobs

\* if intensity > 0 and len(self.rain_blobs) < 20: self.rain_blobs.append({...})
SpawnBlobs(blobs, rain, rnd) ==
    IF Intensity(rain) > 0 /\ Len(blobs) < MaxBlobs
    THEN Append(blobs, NewBlob(rnd))
    ELSE blobs

\* mutant: the decay loop also drifts each particle by one degree
DecayBlobsDrifting(blobs) ==
    [i \in 1..Len(blobs) |->
        [blobs[i] EXCEPT !.life = @ - Decay, !.angle = (@ + 1) % FullCircle]]

\* for blob in self.rain_blobs: blob['life'] -= 0.01
DecayBlobs(blobs) == [i \in 1..Len(blobs) |-> [blobs[i] EXCEPT !.life = @ - Decay]]

Alive(b) == b.life > 0

AliveOrSpent(b) == b.life >= 0

\* mutant: the filter keeps a particle whose life is exactly 0
LiveBlobsLate(blobs) == SelectSeq(blobs, AliveOrSpent)

\* self.rain_blobs = [b for b in self.rain_blobs if b['life'] > 0]
LiveBlobs(blobs) == SelectSeq(blobs, Alive)

\* mutant: decay and removal first, the spawn last
UpdateRainBlobsSpawnLast(blobs, rain, rnd) == SpawnBlobs(LiveBlobs(DecayBlobs(blobs)), rain, rnd)

\* the whole method: spawn, then decay, then drop the expired
UpdateRainBlobs(blobs, rain, rnd) == LiveBlobs(DecayBlobs(SpawnBlobs(blobs, rain, rnd)))

-----------------------------------------------------------------------------
(* WeatherViewer.on_data_received: the history entry *)

\* mutant: a numeric field the sample lacks is recorded as 0
HistoryEntryZeroed(frame, weather) ==
    [time           |-> Get(frame, "t", 0),
     track_temp     |-> Get(weather, "track_temp", 0),
     air_temp       |-> Get(weather, "air_temp", 0),
     humidity       |-> Get(weather, "humidity", 0),
     wind_speed     |-> Get(weather, "wind_speed", 0),
     wind_direction |-> Get(weather, "wind_direction", 0),
     rain_state     |-> Get(weather, "rain_state", "DRY")]

\* the appended dict: frame.get('t', 0), weather.get(key), weather.get('rain_state', 'DRY')
HistoryEntry(frame, weather) ==
    [time           |-> Get(frame, "t", 0),
     track_temp     |-> Get(weather, "track_temp", None),
     air_temp       |-> Get(weather, "air_temp", None),
     humidity       |-> Get(weather, "humidity", None),
     wind_speed     |-> Get(weather, "wind_speed", None),
     wind_direction |-> Get(weather, "wind_direction", None),
     rain_state     |-> Get(weather, "rain_state", "DRY")]

\* mutant: a history that keeps the latest two entries only (a bounded deque)
AppendEntryBounded(history, entry) ==
    LET all == Append(history, entry)
    IN  IF Len(all) > 2 THEN SubSeq(all, Len(all) - 1, Len(all)) ELSE all

\* mutant: a sample whose time equals the newest entry's time is not recorded
AppendEntryDedup(history, entry) ==
    IF history # <<>> /\ history[Len(history)].time = entry.time
    THEN history
    ELSE Append(history, entry)

\* self.weather_history.append({...})
AppendEntry(history, entry) == Append(history, entry)

\* 'frame' in data and 'weather' in data['frame']
CarriesWeather(data) == HasKey(data, "frame") /\ HasKey(data.frame, "weather")

-----------------------------------------------------------------------------
(* TrendGraphWidget.update_graphs: the points handed to plot() *)

\* zip(times, values)
Zipped(history, field) ==
    [i \in 1..Len(history) |-> <<history[i].time, history[i][field]>>]

\* v is not None
HasValue(pair) == pair[2] # None

CompleteEntry(entry) ==
    entry.track_temp # None /\ entry.air_temp # None /\ entry.humidity # None

\* mutant: an entry that lacks any charted field is left out of every line
ValidPairsComplete(history, field) == Zipped(SelectSeq(history, CompleteEntry), field)

\* [(t, v) for t, v in zip(times, values) if v is not None]
ValidPairs(history, field) == SelectSeq(Zipped(history, field), HasValue)

-----------------------------------------------------------------------------
(* WeatherRadarWidget.paintEvent: the radius and the wind arrow *)

Min(a, b) == IF a <= b THEN a ELSE b

\* radius = min(w, h) // 2 - 20
Radius(w, h) == Min(w, h) \div 2 - RadiusMargin

\* mutant: the arrow scaled by the wind speed with no clamp
ArrowLenUnclamped(radius, speed) == radius * speed

\* arrow_len = min(radius * 0.8, radius * (self.wind_speed / 20.0)), in twentieths
\* of a pixel: radius * 0.8 is 16 * radius twentieths and radius * (speed / 20.0)
\* is radius * speed twentieths
ArrowLen(radius, speed) == Min(ArrowCap * radius, radius * speed)

-----------------------------------------------------------------------------
(* WeatherViewer.on_connection_status: what each branch displays *)

StatusText(status) ==
    IF status = "Connected" THEN "SYSTEM ONLINE - RECEIVING TELEMETRY"
    ELSE IF status = "Connecting..." THEN "CONNECTING TO TRACK SERVERS..."
    ELSE "OFFLINE - WAITING FOR SESSION"

TitleText(status) ==
    IF status = "Connected" THEN "ONLINE"
    ELSE IF status = "Connecting..." THEN "Connecting..."
    ELSE "OFFLINE"

\* The connection state the window presents, read back from the status label.
Presented ==
    CASE status_bar = "SYSTEM ONLINE - RECEIVING TELEMETRY" -> "Connected"
      [] status_bar = "CONNECTING TO TRACK SERVERS..."      -> "Connecting"
      [] status_bar = "OFFLINE - WAITING FOR SESSION"       -> "Disconnected"
      [] OTHER                                              -> "Initializing"

-----------------------------------------------------------------------------
(* Observers *)

\* steady_steps counts the update steps run, one after the other, with the
\* delivered rain_state RAINING and the window presenting Connected, from a
\* state whose blob list was empty; -1 when the blob list is not empty and the
\* run of such steps is broken.
SteadyAfterSample(steady, rain, presented, blobsAfter) ==
    IF rain = "RAINING" /\ presented = "Connected" /\ steady >= 0 THEN steady + 1
    ELSE IF blobsAfter = <<>> THEN 0
    ELSE -1

SteadyAfterStatus(steady, presentedBefore, presentedAfter, blobs) ==
    IF presentedAfter = presentedBefore THEN steady
    ELSE IF blobs = <<>> THEN 0
    ELSE -1

CountTick(n) == IF n < TickCap THEN n + 1 ELSE n

-----------------------------------------------------------------------------
(* State after WeatherViewer.__init__ (setup_ui builds the widgets) *)

NoData == [none |-> TRUE]

Init ==
    /\ wind_speed = 0
    /\ wind_direction = 0
    /\ rain_state = "DRY"
    /\ humidity = 0
    /\ air_temp = 0
    /\ track_temp = 0
    /\ sweep_angle = 0
    /\ rain_blobs = <<>>
    /\ weather_history = <<>>
    /\ current_weather = <<>>
    /\ track_line = <<>>
    /\ air_line = <<>>
    /\ humid_line = <<>>
    /\ window_title = "Conectando..."
    /\ status_bar = "Inicializando..."
    /\ ticks = 0
    /\ n_samples = 0
    /\ last_event = "init"
    /\ last_data = NoData
    /\ last_status = "n/a"
    /\ prev_presented = "n/a"
    /\ steady_steps = 0
    /\ paint_result = "none"
    /\ paint_radius = 0
    /\ arrow_len = <<>>

-----------------------------------------------------------------------------
(* Callbacks *)

\* mutant: the timer callback also runs the decay and the removal
animate_decaying ==
    /\ sweep_angle' = (sweep_angle + SweepStep) % FullCircle
    /\ rain_blobs' = LiveBlobs(DecayBlobs(rain_blobs))
    /\ ticks' = CountTick(ticks)
    /\ last_event' = "animate"
    /\ prev_presented' = "n/a"
    /\ UNCHANGED <<paint_state, radar_fields, weather_history, chart_lines, current_weather,
                   window_title, status_bar, n_samples, last_data, last_status,
                   steady_steps>>

\* mutant: the sweep angle is advanced and not wrapped
animate_unwrapped ==
    /\ sweep_angle' = sweep_angle + SweepStep
    /\ ticks' = CountTick(ticks)
    /\ last_event' = "animate"
    /\ prev_presented' = "n/a"
    /\ UNCHANGED <<paint_state, radar_fields, rain_blobs, weather_history, chart_lines, current_weather,
                   window_title, status_bar, n_samples, last_data, last_status,
                   steady_steps>>

\* WeatherRadarWidget.animate: the timer's timeout, every 50 ms.
animate ==
    /\ sweep_angle' = (sweep_angle + SweepStep) % FullCircle
    /\ ticks' = CountTick(ticks)
    /\ last_event' = "animate"
    /\ prev_presented' = "n/a"
    /\ UNCHANGED <<paint_state, radar_fields, rain_blobs, weather_history, chart_lines, current_weather,
                   window_title, status_bar, n_samples, last_data, last_status,
                   steady_steps>>

\* mutant: the fields are stored and the rain simulation is left to a later tick
update_weather_deferred(weather_data, rnd) ==
    /\ wind_speed' = Get(weather_data, "wind_speed", 0)
    /\ wind_direction' = Get(weather_data, "wind_direction", 0)
    /\ rain_state' = Get(weather_data, "rain_state", "DRY")
    /\ humidity' = Get(weather_data, "humidity", 0)
    /\ air_temp' = Get(weather_data, "air_temp", 0)
    /\ track_temp' = Get(weather_data, "track_temp", 0)
    /\ rain_blobs' = rain_blobs

\* mutant: a rain state that is neither DRY nor RAINING is stored as DRY
update_weather_coercing(weather_data, rnd) ==
    /\ wind_speed' = Get(weather_data, "wind_speed", 0)
    /\ wind_direction' = Get(weather_data, "wind_direction", 0)
    /\ rain_state' = IF Get(weather_data, "rain_state", "DRY") = "RAINING"
                     THEN "RAINING" ELSE "DRY"
    /\ humidity' = Get(weather_data, "humidity", 0)
    /\ air_temp' = Get(weather_data, "air_temp", 0)
    /\ track_temp' = Get(weather_data, "track_temp", 0)
    /\ rain_blobs' = UpdateRainBlobs(rain_blobs, rain_state', rnd)

\* WeatherRadarWidget.update_weather(weather_data), with the draws rnd of
\* random.uniform in _update_rain_blobs.
update_weather(weather_data, rnd) ==
    /\ wind_speed' = Get(weather_data, "wind_speed", 0)
    /\ wind_direction' = Get(weather_data, "wind_direction", 0)
    /\ rain_state' = Get(weather_data, "rain_state", "DRY")
    /\ humidity' = Get(weather_data, "humidity", 0)
    /\ air_temp' = Get(weather_data, "air_temp", 0)
    /\ track_temp' = Get(weather_data, "track_temp", 0)
    /\ rain_blobs' = UpdateRainBlobs(rain_blobs, rain_state', rnd)

\* TrendGraphWidget.update_graphs(history): both axes are cleared and the lines
\* are plotted again from the whole history; a line with no valid point is not
\* plotted.
update_graphs(history) ==
    IF history = <<>>
    THEN UNCHANGED chart_lines
    ELSE /\ track_line' = ValidPairs(history, "track_temp")
         /\ air_line' = ValidPairs(history, "air_temp")
         /\ humid_line' = ValidPairs(history, "humidity")

\* mutant: a frame without 'weather' is taken as a sample with an empty weather dict
on_data_received_lenient(data, rnd) ==
    /\ last_data' = data
    /\ IF HasKey(data, "frame")
       THEN LET weather == Get(data.frame, "weather", <<>>)
            IN  /\ current_weather' = weather
                /\ weather_history' = AppendEntry(weather_history,
                                                  HistoryEntry(data.frame, weather))
                /\ update_weather(weather, rnd)
                /\ update_graphs(weather_history')
                /\ n_samples' = n_samples + 1
                /\ last_event' = "sample"
                /\ steady_steps' = SteadyAfterSample(steady_steps, rain_state', Presented,
                                                     rain_blobs')
       ELSE /\ last_event' = "ignored"
            /\ UNCHANGED <<radar_fields, rain_blobs, weather_history, chart_lines, current_weather,
                           n_samples, steady_steps>>
    /\ prev_presented' = "n/a"
    /\ UNCHANGED <<paint_state, sweep_angle, window_title, status_bar, ticks, last_status>>

\* WeatherViewer.on_data_received(data).
on_data_received(data, rnd) ==
    /\ last_data' = data
    /\ IF CarriesWeather(data)
       THEN /\ current_weather' = data.frame.weather
            /\ weather_history' = AppendEntry(weather_history,
                                              HistoryEntry(data.frame, data.frame.weather))
            /\ update_weather(data.frame.weather, rnd)
            /\ update_graphs(weather_history')
            /\ n_samples' = n_samples + 1
            /\ last_event' = "sample"
            /\ steady_steps' = SteadyAfterSample(steady_steps, rain_state', Presented,
                                                 rain_blobs')
       ELSE /\ last_event' = "ignored"
            /\ UNCHANGED <<radar_fields, rain_blobs, weather_history, chart_lines, current_weather,
                           n_samples, steady_steps>>
    /\ prev_presented' = "n/a"
    /\ UNCHANGED <<paint_state, sweep_angle, window_title, status_bar, ticks, last_status>>

\* mutant: a Disconnected status clears the radar's particles
on_connection_status_clearing(status) ==
    /\ window_title' = TitleText(status)
    /\ status_bar' = StatusText(status)
    /\ rain_blobs' = IF status \in {"Connected", "Connecting..."} THEN rain_blobs ELSE <<>>
    /\ last_event' = "status"
    /\ last_status' = status
    /\ prev_presented' = Presented
    /\ steady_steps' = SteadyAfterStatus(steady_steps, Presented, Presented', rain_blobs')
    /\ UNCHANGED <<paint_state, radar_fields, sweep_angle, weather_history, chart_lines,
                   current_weather, ticks, n_samples, last_data>>

\* mutant: Connected is shown only after Connecting, Connecting only when not Connected
on_connection_status_ordered(status) ==
    /\ IF \/ status = "Connected" /\ Presented # "Connecting"
          \/ status = "Connecting..." /\ Presented = "Connected"
       THEN UNCHANGED <<window_title, status_bar>>
       ELSE /\ window_title' = TitleText(status)
            /\ status_bar' = StatusText(status)
    /\ last_event' = "status"
    /\ last_status' = status
    /\ prev_presented' = Presented
    /\ steady_steps' = SteadyAfterStatus(steady_steps, Presented, Presented', rain_blobs)
    /\ UNCHANGED <<paint_state, radar_fields, sweep_angle, rain_blobs, weather_history, chart_lines,
                   current_weather, ticks, n_samples, last_data>>

\* WeatherViewer.on_connection_status(status).
on_connection_status(status) ==
    /\ window_title' = TitleText(status)
    /\ status_bar' = StatusText(status)
    /\ last_event' = "status"
    /\ last_status' = status
    /\ prev_presented' = Presented
    /\ steady_steps' = SteadyAfterStatus(steady_steps, Presented, Presented', rain_blobs)
    /\ UNCHANGED <<paint_state, radar_fields, sweep_angle, rain_blobs, weather_history, chart_lines,
                   current_weather, ticks, n_samples, last_data>>

\* WeatherRadarWidget.paintEvent(event) on a widget w wide and h high.  The
\* rain section reads blob.angle on a dict: with a blob in the list the
\* attribute access raises AttributeError and the rest of the method (sweep,
\* wind arrow, overlay text) does not run.  The method changes no field of the
\* widget.
paintEvent(w, h) ==
    /\ paint_radius' = Radius(w, h)
    /\ IF rain_blobs # <<>>
       THEN /\ paint_result' = "AttributeError"
            /\ arrow_len' = <<>>
       ELSE /\ paint_result' = "done"
            /\ arrow_len' = IF wind_speed > 0
                            THEN <<ArrowLen(Radius(w, h), wind_speed)>>
                            ELSE <<>>
    /\ last_event' = "paint"
    /\ prev_presented' = "n/a"
    /\ UNCHANGED <<radar_fields, sweep_angle, rain_blobs, weather_history, chart_lines,
                   current_weather, window_title, status_bar, ticks, n_samples,
                   last_data, last_status, steady_steps>>

-----------------------------------------------------------------------------
(* Inputs *)

\* the status strings the stream client emits
Statuses == {"Connected", "Connecting...", "Disconnected"}

\* draws of random.uniform(0, 360), uniform(0.1, 0.9) in tenths, uniform(0.1, 0.3) in tenths
Draws == {[angle |-> 45, dist |-> 1, size |-> 1], [angle |-> 270, dist |-> 9, size |-> 3]}

OneDraw == {[angle |-> 45, dist |-> 5, size |-> 2]}

FullWeather(rain) ==
    [track_temp |-> 30, air_temp |-> 20, humidity |-> 50, wind_speed |-> 10,
     wind_direction |-> 90, rain_state |-> rain]

\* stream messages: complete samples, samples lacking fields, a rain_state that is
\* neither DRY nor RAINING, a frame without weather, a message without frame
Messages ==
    { [frame |-> [t |-> 1, weather |-> FullWeather("RAINING")]],
      [frame |-> [t |-> 2, weather |-> FullWeather("DRY")]],
      [frame |-> [weather |-> [wind_speed |-> 20, wind_direction |-> 180,
                               rain_state |-> "RAINING"]]],
      [frame |-> [t |-> 2, weather |-> [track_temp |-> 31, air_temp |-> 21,
                                        wind_speed |-> 0, wind_direction |-> 0]]],
      [frame |-> [t |-> 3, weather |-> FullWeather("WET")]],
      [frame |-> [t |-> 3]],
      [type |-> "ping"] }

\* the samples of the long runs: rain state and wind, no temperature or humidity
WindWeather(rain) == [wind_speed |-> 10, wind_direction |-> 90, rain_state |-> rain]

LongMessages ==
    { [frame |-> [t |-> 1, weather |-> WindWeather("RAINING")]],
      [frame |-> [t |-> 1, weather |-> WindWeather("DRY")]] }

\* The long runs deliver a stretch of RAINING samples followed by a stretch of
\* DRY samples: a RAINING sample comes only while every sample so far was RAINING.
RainThenDry(data) ==
    data.frame.weather.rain_state = "RAINING"
        => \A i \in 1..Len(weather_history) : weather_history[i].rain_state = "RAINING"

\* the samples of the paint runs: calm, light, at the clamp, above it
PaintWeather(speed, rain) == [wind_speed |-> speed, wind_direction |-> 90, rain_state |-> rain]

PaintMessages ==
    { [frame |-> [t |-> 1, weather |-> PaintWeather(speed, "DRY")]] : speed \in {0, 10, 16, 17, 20} }
    \cup { [frame |-> [t |-> 1, weather |-> PaintWeather(10, "RAINING")]] }

\* widget sizes: radius 100, radius 60, and a widget too small for a radar
\* (radius -5)
WidgetSizes == {[w |-> 240, h |-> 300], [w |-> 400, h |-> 160], [w |-> 30, h |-> 30]}

\* the samples of the chart runs: complete, without humidity, without the two
\* temperatures; all dry
ChartWeathers ==
    { [track_temp |-> 30, air_temp |-> 20, humidity |-> 50, rain_state |-> "DRY"],
      [track_temp |-> 31, air_temp |-> 21, rain_state |-> "DRY"],
      [humidity |-> 55, rain_state |-> "DRY"] }

\* the frame of session time t carrying weather
ChartMessage(t, weather) == [frame |-> [t |-> t, weather |-> weather]]

-----------------------------------------------------------------------------
(* Specifications *)

\* every interleaving of the three callbacks, short runs, all message shapes
Next ==
    \/ /\ ticks < MaxTicks
       /\ animate
    \/ /\ n_samples < MaxSamples
       /\ \E data \in Messages, rnd \in Draws : on_data_received(data, rnd)
    \/ \E status \in Statuses : on_connection_status(status)

Spec == Init /\ [][Next]_vars

\* long runs: up to MaxLongSamples samples, rain first, interleaved with status
\* events and ticks
LongNext ==
    \/ /\ ticks < MaxLongTicks
       /\ animate
    \/ /\ n_samples < MaxLongSamples
       /\ \E data \in LongMessages, rnd \in OneDraw :
              RainThenDry(data) /\ on_data_received(data, rnd)
    \/ \E status \in {"Connected", "Disconnected"} : on_connection_status(status)

LongSpec == Init /\ [][LongNext]_vars

\* the timer never stops: ticks without bound (weakly fair, the QTimer fires every
\* 50 ms), a few samples, any status events
FairNext ==
    \/ animate
    \/ /\ n_samples < MaxFairSamples
       /\ \E data \in LongMessages, rnd \in OneDraw : on_data_received(data, rnd)
    \/ \E status \in Statuses : on_connection_status(status)

FairSpec == Init /\ [][FairNext]_vars /\ WF_vars(animate)

\* five samples, one per second of session time, each complete or lacking
\* charted fields
ChartNext ==
    \/ /\ ticks < MaxChartTicks
       /\ animate
    \/ /\ n_samples < MaxChartSamples
       /\ \E weather \in ChartWeathers, rnd \in OneDraw :
              on_data_received(ChartMessage(n_samples + 1, weather), rnd)
    \/ \E status \in {"Connected", "Disconnected"} : on_connection_status(status)

ChartSpec == Init /\ [][ChartNext]_vars

\* more than a full turn of the sweep, among a sample of any shape and status
\* events
SweepNext ==
    \/ /\ ticks < MaxSweepTicks
       /\ animate
    \/ /\ n_samples < MaxSweepSamples
       /\ \E data \in Messages, rnd \in Draws : on_data_received(data, rnd)
    \/ \E status \in Statuses : on_connection_status(status)

SweepSpec == Init /\ [][SweepNext]_vars

\* repaints among the callbacks: Qt repaints after update() and whenever the
\* window is exposed or resized
PaintNext ==
    \/ /\ ticks < MaxPaintTicks
       /\ animate
    \/ /\ n_samples < MaxPaintSamples
       /\ \E data \in PaintMessages, rnd \in OneDraw : on_data_received(data, rnd)
    \/ \E status \in Statuses : on_connection_status(status)
    \/ \E size \in WidgetSizes : paintEvent(size.w, size.h)

PaintSpec == Init /\ [][PaintNext]_vars

-----------------------------------------------------------------------------
(* Steps and particle lists, as the properties below read them *)

TickStep == last_event' = "animate" /\ sweep_angle' # sweep_angle

SampleStep == last_event' = "sample" /\ n_samples' = n_samples + 1

StatusStep == last_event' = "status"

\* the last particle of the list was appended by the update step that ran last:
\* it has lost one decrement only
NewestIsFresh(blobs) == blobs # <<>> /\ blobs[Len(blobs)].life = LifeFull - Decay

\* the particles of blobs that one decrement does not expire
Outliving(blobs) == {i \in 1..Len(blobs) : blobs[i].life - Decay > 0}

\* the particles of blobs that one decrement expires
Expiring(blobs) == {i \in 1..Len(blobs) : blobs[i].life - Decay <= 0}

AllRaining(history) == \A i \in 1..Len(history) : history[i].rain_state = "RAINING"

RainCount(history) == Cardinality({i \in 1..Len(history) : history[i].rain_state = "RAINING"})

-----------------------------------------------------------------------------
(* C1 *)

\* C1: in every reachable state at most 20 rain particles are live, and a sample
\* delivered while 20 are live spawns none (no particle of the list after the
\* step is a fresh one).
C1_PopulationCapped ==
    /\ [](Len(rain_blobs) <= 20)
    /\ [][(SampleStep /\ Len(rain_blobs) = 20) => ~NewestIsFresh(rain_blobs')]_vars

\* C1 witness: a RAINING sample was delivered to a full list, which stayed at 20
\* with no fresh particle in it.
C1_Witness ==
    /\ last_event = "sample"
    /\ rain_state = "RAINING"
    /\ AllRaining(weather_history)
    /\ Len(weather_history) = 21
    /\ Len(rain_blobs) = 20
    /\ ~NewestIsFresh(rain_blobs)

-----------------------------------------------------------------------------
(* C2 *)

NumericKeys == {"track_temp", "air_temp", "humidity", "wind_speed", "wind_direction"}

\* entry records the sample carried by the message data
Records(entry, data) ==
    LET frame == data["frame"]
        weather == frame["weather"]
    IN  /\ entry.time = (IF "t" \in DOMAIN frame THEN frame["t"] ELSE 0)
        /\ \A k \in NumericKeys :
               entry[k] = (IF k \in DOMAIN weather THEN weather[k] ELSE None)
        /\ entry.rain_state =
               (IF "rain_state" \in DOMAIN weather THEN weather["rain_state"] ELSE "DRY")

\* C2: the history holds one entry per weather sample delivered, in arrival
\* order: a delivery appends the entry of the delivered sample and keeps every
\* older entry as it was, and no other step touches the history.
C2_HistoryAppendOnly ==
    /\ [](Len(weather_history) = n_samples)
    /\ [][IF SampleStep
          THEN /\ Len(weather_history') = Len(weather_history) + 1
               /\ SubSeq(weather_history', 1, Len(weather_history)) = weather_history
               /\ Records(weather_history'[Len(weather_history')], last_data')
          ELSE weather_history' = weather_history]_vars

\* C2 witness: three samples delivered among ticks and status events, all kept.
C2_Witness ==
    /\ n_samples = 3
    /\ Len(weather_history) = 3
    /\ weather_history[1].rain_state = "RAINING"
    /\ weather_history[2].humidity = None
    /\ weather_history[3].time = 3
    /\ ticks = 2
    /\ last_event = "status"

-----------------------------------------------------------------------------
(* C3 *)

\* C3 as claimed: every animation tick lowers the life of every live particle by
\* the decay rate and removes the expired ones.
C3_TickDecays ==
    [][TickStep =>
          /\ Len(rain_blobs') = Cardinality(Outliving(rain_blobs))
          /\ \A i \in Outliving(rain_blobs) :
                 \E j \in 1..Len(rain_blobs') :
                     rain_blobs'[j] = [rain_blobs[i] EXCEPT !.life = @ - Decay]]_vars

\* C3 amended: decay is driven by data arrival and not by the animation tick.  A
\* tick leaves the particle list as it is; the delivery of a weather sample
\* lowers the life of every particle that was live by the decay rate and removes
\* the expired ones.
C3_DecayOnSampleOnly ==
    [][/\ TickStep => rain_blobs' = rain_blobs
       /\ SampleStep =>
              LET dropped == Cardinality(Expiring(rain_blobs))
              IN  /\ \A i \in Outliving(rain_blobs) :
                         /\ i - dropped \in 1..Len(rain_blobs')
                         /\ rain_blobs'[i - dropped].life = rain_blobs[i].life - Decay
                  /\ \A j \in 1..Len(rain_blobs') : rain_blobs'[j].life > 0
                  /\ Len(rain_blobs') - (Len(rain_blobs) - dropped) \in {0, 1}]_vars

\* C3 witness: a tick has just run over live particles, one of which had already
\* been aged by a sample delivery.
C3_Witness ==
    /\ last_event = "animate"
    /\ Len(rain_blobs) = 2
    /\ rain_blobs[1].life = LifeFull - 2 * Decay
    /\ rain_blobs[2].life = LifeFull - Decay

-----------------------------------------------------------------------------
(* C4 *)

\* C4 as claimed: the delivery of a weather sample leaves the particle list and
\* every particle's life as they were.
C4_SampleLeavesParticles == [][SampleStep => rain_blobs' = rain_blobs]_vars

\* a delivery spawns when the delivered rain_state is RAINING and fewer than 20
\* particles are live
SpawnDue == rain_state' = "RAINING" /\ Len(rain_blobs) < 20

\* C4 amended: the delivery of a weather sample acts on the particle list at
\* once: the call itself runs one update step, which appends one particle when
\* the delivered rain_state is RAINING and fewer than 20 are live, lowers every
\* life by the decay rate and drops the expired particles, so a list that was not
\* empty is never the same after the call, and n deliveries between two ticks
\* run n update steps.
C4_SampleUpdatesParticles ==
    [][SampleStep =>
          /\ Len(rain_blobs') =
                 Cardinality(Outliving(rain_blobs)) + (IF SpawnDue THEN 1 ELSE 0)
          /\ \A j \in 1..Len(rain_blobs') :
                 \/ SpawnDue /\ j = Len(rain_blobs') /\ rain_blobs'[j].life = LifeFull - Decay
                 \/ \E i \in Outliving(rain_blobs) : rain_blobs'[j].life = rain_blobs[i].life - Decay
          /\ rain_blobs # <<>> => rain_blobs' # rain_blobs]_vars

\* C4 witness: three samples delivered and no tick at all; the list holds three
\* particles aged three, two and one decrements.
C4_Witness ==
    /\ last_event = "sample"
    /\ ticks = 0
    /\ n_samples = 3
    /\ Len(rain_blobs) = 3
    /\ rain_blobs[1].life = LifeFull - 3 * Decay
    /\ rain_blobs[2].life = LifeFull - 2 * Decay
    /\ rain_blobs[3].life = LifeFull - Decay

-----------------------------------------------------------------------------
(* C5 *)

\* C5 as claimed: while the window presents Disconnected (in a step that is not
\* the status event ending it) the particle population does not grow.
C5_NoSpawnWhileDisconnected ==
    [][(Presented = "Disconnected" /\ Presented' = "Disconnected")
           => Len(rain_blobs') <= Len(rain_blobs)]_vars

\* C5 amended: spawning does not depend on the connection state.  A particle is
\* spawned in exactly the sample deliveries whose rain_state is RAINING while
\* fewer than 20 particles are live, also while the window presents
\* Disconnected; a connection-status event changes no particle.
C5_SpawnIgnoresConnection ==
    [][/\ SampleStep => (NewestIsFresh(rain_blobs') <=> SpawnDue)
       /\ StatusStep => rain_blobs' = rain_blobs]_vars

\* C5 witness: a sample delivered while the window presented Disconnected has
\* just spawned a particle.
C5_Witness ==
    /\ Presented = "Disconnected"
    /\ last_event = "sample"
    /\ rain_state = "RAINING"
    /\ NewestIsFresh(rain_blobs)

-----------------------------------------------------------------------------
(* C6 *)

\* C6: an update step takes exactly the decay rate from every particle that was
\* live, keeps (in order) every particle whose life stays above 0 and drops
\* every other one; no other step changes a particle; so every particle of the
\* list has 0 < life <= 1.
C6_LifeDecreasesUntilRemoved ==
    /\ [](\A i \in 1..Len(rain_blobs) :
              rain_blobs[i].life > 0 /\ rain_blobs[i].life <= LifeFull)
    /\ [][IF SampleStep
          THEN LET dropped == Cardinality(Expiring(rain_blobs))
                   kept == Len(rain_blobs) - dropped
               IN  /\ \A i \in Outliving(rain_blobs) :
                          /\ i - dropped \in 1..Len(rain_blobs')
                          /\ rain_blobs'[i - dropped]
                                 = [rain_blobs[i] EXCEPT !.life = @ - Decay]
                   /\ \A j \in 1..Len(rain_blobs') :
                          j > kept => /\ j = Len(rain_blobs')
                                      /\ rain_blobs'[j].life = LifeFull - Decay
          ELSE rain_blobs' = rain_blobs]_vars

\* C6 witness: twenty particles were spawned, fifteen have expired one by one
\* and the oldest of the five left is at its last hundredth.
C6_Witness ==
    /\ last_event = "sample"
    /\ rain_state = "DRY"
    /\ RainCount(weather_history) = 20
    /\ Len(rain_blobs) = 5
    /\ rain_blobs[1].life = Decay

-----------------------------------------------------------------------------
(* C7 *)

\* C7 as claimed: once the window presents Disconnected with particles live,
\* and no further sample arrives, the ticks that follow decay the particles
\* until none is left.
C7_DecaysAfterDisconnect ==
    \A n \in 0..MaxFairSamples :
        (Presented = "Disconnected" /\ n_samples = n /\ rain_blobs # <<>>)
            ~> (n_samples # n \/ rain_blobs = <<>>)

\* C7 amended: the Disconnected event removes no particle, and afterwards,
\* while no further weather sample arrives, the particle list stays exactly as
\* it is however many ticks run: no particle loses life, none is removed and the
\* population does not reach 0; particles age only when samples are delivered.
C7_ParticlesStayWithoutSamples ==
    [][/\ (StatusStep /\ Presented' = "Disconnected") => rain_blobs' = rain_blobs
       /\ ~SampleStep => /\ rain_blobs' = rain_blobs
                         /\ Len(rain_blobs') = Len(rain_blobs)]_vars

\* C7 witness: the window presents Disconnected, ticks have run (the last step
\* was one) and the particle spawned by the last sample still has the life that
\* sample left it.
C7_Witness ==
    /\ Presented = "Disconnected"
    /\ last_event = "animate"
    /\ ticks = TickCap
    /\ n_samples = MaxFairSamples
    /\ NewestIsFresh(rain_blobs)

-----------------------------------------------------------------------------
(* C8 *)

\* C8 as claimed: after 20 or more update steps run from an empty list with
\* RAINING delivered and Connected presented throughout, the population is 20.
C8_ConvergesToCap == steady_steps >= 20 => Len(rain_blobs) = 20

\* C8 amended: from an empty list, with RAINING delivered and Connected
\* presented throughout, the population is n after n <= 20 update steps and 20
\* after each later step except the steps in which a particle expires: the
\* spawn test runs before the removal, so such a step ends with 19 particles.
\* Particles expire in the steps 100 to 119 of every 100 steps.
C8_CapExceptWhenExpiring ==
    steady_steps >= 0 =>
        Len(rain_blobs) = (IF steady_steps < 20 THEN steady_steps
                           ELSE IF steady_steps % LifeFull < 20 THEN 19
                           ELSE 20)

\* C8 witness: the 100th step of such a run has just removed the first
\* particle and left 19.
C8_Witness ==
    /\ steady_steps = 100
    /\ last_event = "sample"
    /\ Presented = "Connected"
    /\ Len(rain_blobs) = 19

-----------------------------------------------------------------------------
(* C9 *)

BothDry == rain_state = "DRY" /\ rain_state' = "DRY"

\* C9 as claimed: while rain_state stays DRY no particle is spawned, the
\* population never increases, it eventually reaches 0, and once 0 it stays 0.
C9_DryReachesZero ==
    /\ [][BothDry => /\ Len(rain_blobs') <= Len(rain_blobs)
                     /\ rain_blobs = <<>> => rain_blobs' = <<>>]_vars
    /\ (rain_state = "DRY" /\ rain_blobs # <<>>) ~> (rain_state # "DRY" \/ rain_blobs = <<>>)

\* C9 amended: while rain_state stays DRY no particle is spawned, the
\* population never increases and once 0 it stays 0; it reaches 0 through
\* further sample deliveries only, each of which takes the decay rate from
\* every particle (every life is at most 0.99, so 99 deliveries empty the
\* list): while no sample arrives, ticks leave the population as it is.
C9_DryNeverGrows ==
    /\ [](\A i \in 1..Len(rain_blobs) : rain_blobs[i].life <= LifeFull - Decay)
    /\ [][BothDry =>
             /\ Len(rain_blobs') <= Len(rain_blobs)
             /\ rain_blobs = <<>> => rain_blobs' = <<>>
             /\ IF SampleStep
                THEN \A j \in 1..Len(rain_blobs') :
                         \E i \in 1..Len(rain_blobs) :
                             rain_blobs'[j] = [rain_blobs[i] EXCEPT !.life = @ - Decay]
                ELSE rain_blobs' = rain_blobs]_vars

\* C9 witness: a DRY sample delivered after a RAINING one has aged the particle
\* and spawned none, and a tick has since left it alone.
C9_Witness ==
    /\ rain_state = "DRY"
    /\ last_event = "animate"
    /\ n_samples = 2
    /\ weather_history[1].rain_state = "RAINING"
    /\ weather_history[2].rain_state = "DRY"
    /\ Len(rain_blobs) = 1
    /\ rain_blobs[1].life = LifeFull - 2 * Decay

-----------------------------------------------------------------------------
(* C10 *)

AllowedMoves ==
    { <<"Disconnected", "Connecting">>, <<"Connecting", "Connected">>,
      <<"Connecting", "Disconnected">>, <<"Connected", "Disconnected">> }

\* C10 as claimed: before the first event the window presents Disconnected, and
\* the presented state only moves Disconnected->Connecting, Connecting->Connected,
\* Connecting->Disconnected or Connected->Disconnected.
C10_SessionStateMachine ==
    [][/\ last_event = "init" => Presented = "Disconnected"
       /\ Presented' # Presented => <<Presented, Presented'>> \in AllowedMoves]_vars

\* the state a status string names
StateNamed(status) ==
    CASE status = "Connected"     -> "Connected"
      [] status = "Connecting..." -> "Connecting"
      [] OTHER                    -> "Disconnected"

\* C10 amended: until the first connection-status event the window presents
\* none of the three states (status label "Inicializando...", title
\* "Conectando..."), and after every connection-status event it presents the
\* state that event names, whatever it presented before: the window enforces no
\* order, so Disconnected->Connected and Connected->Connecting happen whenever
\* the events come in that order.  No other callback changes what is presented.
C10_PresentsTheEventNamed ==
    /\ [](last_status = "n/a" =>
              status_bar = "Inicializando..." /\ window_title = "Conectando...")
    /\ [][IF StatusStep
          THEN /\ Presented' = StateNamed(last_status')
               /\ window_title' = (CASE Presented' = "Connected"  -> "ONLINE"
                                     [] Presented' = "Connecting" -> "Connecting..."
                                     [] OTHER                     -> "OFFLINE")
          ELSE Presented' = Presented /\ window_title' = window_title]_vars

\* C10 witness: a Connected event has just moved the window from Disconnected
\* straight to Connected.
C10_Witness ==
    /\ last_event = "status"
    /\ last_status = "Connected"
    /\ prev_presented = "Disconnected"
    /\ Presented = "Connected"

-----------------------------------------------------------------------------
(* C11 *)

PaintStep == last_event' = "paint"

\* C11: paintEvent runs to completion without error in every reachable state,
\* the states with a non-empty particle list and the states with wind_speed > 0
\* included.
C11_PaintCompletes == [][PaintStep => paint_result' = "done"]_vars

-----------------------------------------------------------------------------
(* C12 *)

ChartedKeys == {"track_temp", "air_temp", "humidity"}

\* the radar widget's field of that name
RadarValue(k) ==
    CASE k = "track_temp" -> track_temp
      [] k = "air_temp"   -> air_temp
      [] k = "humidity"   -> humidity

\* the chart line of that field
ChartLine(k) ==
    CASE k = "track_temp" -> track_line
      [] k = "air_temp"   -> air_line
      [] k = "humidity"   -> humid_line

\* the weather dict of the message delivered last
LastWeather == last_data.frame.weather

\* C12 as stated: after a sample without track_temp, air_temp or humidity no
\* part of the state holds 0 for that field: the history entry records it as
\* absent and the radar widget's field is not 0.
C12_AbsentStaysAbsent ==
    (last_event = "sample") =>
        \A k \in ChartedKeys \ DOMAIN LastWeather :
            /\ weather_history[Len(weather_history)][k] = None
            /\ RadarValue(k) # 0

\* C12 amended: a sample without track_temp, air_temp or humidity is recorded
\* with that field absent (None) in its history entry, leaves the key out of
\* current_weather and adds no point to the field's chart line; the radar
\* widget's own field of that name is set to the default 0.
C12_AbsentInHistoryZeroOnRadar ==
    [][SampleStep =>
          \A k \in ChartedKeys \ DOMAIN LastWeather' :
              /\ weather_history'[Len(weather_history')][k] = None
              /\ k \notin DOMAIN current_weather'
              /\ Len(ChartLine(k)') = Len(ChartLine(k))
              /\ RadarValue(k)' = 0]_vars

\* C12 witness: after two complete samples one without humidity was delivered:
\* its entry has humidity absent, the humidity line still has two points and
\* the radar's humidity went from 50 to 0.
C12_Witness ==
    /\ last_event = "sample"
    /\ n_samples = 3
    /\ "humidity" \notin DOMAIN LastWeather
    /\ weather_history[3].humidity = None
    /\ weather_history[2].humidity = 50
    /\ Len(humid_line) = 2
    /\ Len(track_line) = 3
    /\ humidity = 0

-----------------------------------------------------------------------------
(* C13 *)

\* the delivered sample names no rain state, or one that is neither DRY nor RAINING
UnknownRain(weather) ==
    \/ "rain_state" \notin DOMAIN weather
    \/ weather["rain_state"] \notin {"DRY", "RAINING"}

\* C13: a sample whose rain_state is neither DRY nor RAINING, or is missing, is
\* handled like DRY by the particle simulation: its update spawns no particle
\* (the list after the step is the list before it, each particle one decrement
\* older, the expired ones dropped), whatever the number of particles.
C13_UnknownRainSpawnsNone ==
    [][(SampleStep /\ UnknownRain(LastWeather')) =>
          /\ ~NewestIsFresh(rain_blobs')
          /\ Len(rain_blobs') = Cardinality(Outliving(rain_blobs))
          /\ \A i \in 1..Len(rain_blobs') :
                 LET j == i + (Len(rain_blobs) - Len(rain_blobs'))
                 IN  rain_blobs'[i] = [rain_blobs[j] EXCEPT !.life = @ - Decay]]_vars

\* C13 witness: a sample with rain_state WET came after two RAINING samples:
\* the two particles aged and no third one appeared.
C13_Witness ==
    /\ last_event = "sample"
    /\ "rain_state" \in DOMAIN LastWeather
    /\ LastWeather.rain_state = "WET"
    /\ n_samples = 3
    /\ Len(rain_blobs) = 2
    /\ rain_blobs[1].life = 97
    /\ rain_blobs[2].life = 98

-----------------------------------------------------------------------------
(* C14 *)

\* the rain state the sample carries, DRY when it carries none
CarriedRain(weather) ==
    IF "rain_state" \in DOMAIN weather THEN weather["rain_state"] ELSE "DRY"

\* C14 as stated: in every reachable state the rain_state held by the radar
\* widget and the rain_state of every history entry is DRY or RAINING,
\* whatever the samples carried.
C14_RainStateCoerced ==
    /\ rain_state \in {"DRY", "RAINING"}
    /\ \A i \in 1..Len(weather_history) :
           weather_history[i].rain_state \in {"DRY", "RAINING"}

\* C14 amended: the rain_state held by the radar widget and recorded in the
\* history entry of a sample is the value the sample carried, whatever it is,
\* and DRY when the sample carried none; the radar holds the rain state of the
\* newest entry, DRY before the first.
C14_RainStateAsCarried ==
    /\ [][SampleStep =>
             /\ rain_state' = CarriedRain(LastWeather')
             /\ weather_history'[Len(weather_history')].rain_state = CarriedRain(LastWeather')]_vars
    /\ [](rain_state = IF weather_history = <<>> THEN "DRY"
                       ELSE weather_history[Len(weather_history)].rain_state)

\* C14 witness: the first sample carried rain_state WET: the radar and the
\* history entry hold WET.
C14_Witness ==
    /\ last_event = "sample"
    /\ n_samples = 1
    /\ rain_state = "WET"
    /\ weather_history[1].rain_state = "WET"
    /\ rain_blobs = <<>>

-----------------------------------------------------------------------------
(* C15 *)

\* C15: after N animation ticks from the initial state the sweep angle is
\* (5 * N) mod 360, it is always in [0, 360), and no step other than a tick
\* changes it, whatever samples and status events come between the ticks.
C15_SweepFollowsTicks ==
    /\ [](ticks < TickCap => sweep_angle = (5 * ticks) % 360)
    /\ [](sweep_angle \in 0..359)
    /\ [][last_event' # "animate" => sweep_angle' = sweep_angle]_vars

\* C15 witness: 73 ticks, a sample and a status event: the sweep has wrapped
\* and stands at 5.
C15_Witness ==
    /\ ticks = 73
    /\ sweep_angle = 5
    /\ n_samples = 1
    /\ last_event = "status"

-----------------------------------------------------------------------------
(* C16 *)

\* the history entries that carry a value for the field k
Present(k) == {i \in 1..Len(weather_history) : weather_history[i][k] # None}

\* C16: for each charted field the plotted series is exactly the (time, value)
\* pairs of the history entries where the field is present, in history order:
\* the entry i that carries the field is the point numbered by the count of
\* carrying entries up to i, and there is no other point.  An entry lacking one
\* field is still a point of the other fields' series.
C16_SeriesAreThePresentPairs ==
    \A k \in ChartedKeys :
        /\ Len(ChartLine(k)) = Cardinality(Present(k))
        /\ \A i \in Present(k) :
               ChartLine(k)[Cardinality({j \in Present(k) : j <= i})]
                   = <<weather_history[i].time, weather_history[i][k]>>

\* C16 witness: five samples, humidity absent in the third only: the humidity
\* series has the four other points, the track series all five.
C16_Witness ==
    /\ n_samples = 5
    /\ Present("humidity") = {1, 2, 4, 5}
    /\ humid_line = <<<<1, 50>>, <<2, 50>>, <<4, 50>>, <<5, 50>>>>
    /\ Len(track_line) = 5
    /\ track_line[3] = <<3, 31>>

-----------------------------------------------------------------------------
(* C17 *)

\* the recorded times never go down along the history
Ordered(history) ==
    \A i \in 1..(Len(history) - 1) : history[i].time <= history[i + 1].time

\* the frame delivered last
LastFrame == last_data.frame

\* the frame's session time is not below any time recorded so far
NotBefore(frame, history) == \A i \in 1..Len(history) : history[i].time <= frame["t"]

\* C17 as stated: the recorded times stay non-decreasing over arrivals whose
\* session times are non-decreasing, frames that carry no time field included,
\* and every sample is kept.
C17_TimesNonDecreasing ==
    [][(/\ SampleStep
        /\ Ordered(weather_history)
        /\ "t" \in DOMAIN LastFrame' => NotBefore(LastFrame', weather_history))
          => /\ Ordered(weather_history')
             /\ Len(weather_history') = Len(weather_history) + 1]_vars

\* C17 amended: every sample is kept, two samples of the same time included;
\* the time recorded is the frame's session time, and 0 for a frame that
\* carries no time field; the recorded times stay non-decreasing over arrivals
\* whose frames all carry a time field with non-decreasing session times.
C17_TimesFollowCarriedTimes ==
    [][SampleStep =>
          /\ Len(weather_history') = Len(weather_history) + 1
          /\ weather_history'[Len(weather_history')].time =
                 (IF "t" \in DOMAIN LastFrame' THEN LastFrame'["t"] ELSE 0)
          /\ (/\ Ordered(weather_history)
              /\ "t" \in DOMAIN LastFrame'
              /\ NotBefore(LastFrame', weather_history)) => Ordered(weather_history')]_vars

\* C17 witness: three samples of session times 2, 2 and 3 were delivered: all
\* three are recorded, in order.
C17_Witness ==
    /\ last_event = "sample"
    /\ Len(weather_history) = 3
    /\ weather_history[1].time = 2
    /\ weather_history[2].time = 2
    /\ weather_history[3].time = 3
    /\ Ordered(weather_history)

-----------------------------------------------------------------------------
(* C18 *)

\* the last callback was a paintEvent that reached the wind arrow section with
\* wind_speed > 0
ArrowDrawn == last_event = "paint" /\ paint_result = "done" /\ wind_speed > 0

\* pixels, in the twentieths arrow_len is counted in
Px(n) == 20 * n

\* C18 as stated: the arrow length is min(0.8 * radius, radius * speed / 20) for
\* every speed > 0 and radius: linear in the speed up to 16, clamped at 80% of
\* the radius above, never more than 0.8 * radius; at radius 100 speed 10
\* gives 40 and speed 20 gives 80.
C18_ArrowLength ==
    ArrowDrawn =>
        /\ arrow_len # <<>>
        /\ arrow_len[1] = (IF 16 * paint_radius <= paint_radius * wind_speed
                           THEN 16 * paint_radius ELSE paint_radius * wind_speed)
        /\ arrow_len[1] = (IF wind_speed <= 16 THEN paint_radius * wind_speed
                           ELSE 16 * paint_radius)
        /\ arrow_len[1] <= 16 * paint_radius
        /\ (paint_radius = 100 /\ wind_speed = 10) => arrow_len[1] = Px(40)
        /\ (paint_radius = 100 /\ wind_speed = 20) => arrow_len[1] = Px(80)

\* C18 amended: the arrow length is min(0.8 * radius, radius * speed / 20) for
\* every speed > 0 and radius and never more than 0.8 * radius; for a radius
\* that is not negative it is linear in the speed up to 16 and clamped at 80%
\* of the radius above; at radius 100 speed 10 gives 50 and speed 20 gives 80.
C18_ArrowLengthClamped ==
    ArrowDrawn =>
        /\ arrow_len # <<>>
        /\ arrow_len[1] = (IF 16 * paint_radius <= paint_radius * wind_speed
                           THEN 16 * paint_radius ELSE paint_radius * wind_speed)
        /\ paint_radius >= 0 =>
               arrow_len[1] = (IF wind_speed <= 16 THEN paint_radius * wind_speed
                               ELSE 16 * paint_radius)
        /\ arrow_len[1] <= 16 * paint_radius
        /\ (paint_radius = 100 /\ wind_speed = 10) => arrow_len[1] = Px(50)
        /\ (paint_radius = 100 /\ wind_speed = 20) => arrow_len[1] = Px(80)

\* C18 witness: a repaint at radius 100 with wind speed 20 drew the arrow at
\* the clamp, 80 pixels.
C18_Witness ==
    /\ ArrowDrawn
    /\ paint_radius = 100
    /\ wind_speed = 20
    /\ arrow_len = <<Px(80)>>

-----------------------------------------------------------------------------
(* C19 *)

\* one decrement expires a particle of the list: its removal makes room
RoomAfterRemoval(blobs) == \E i \in 1..Len(blobs) : blobs[i].life - Decay <= 0

\* C19 as stated: an update step decays, then removes, then spawns: it adds at
\* most one particle, and the particle it spawns (when it is raining and fewer
\* than 20 are left after the removal) ends the step with the life 1.0.
C19_DecayRemoveSpawn ==
    [][SampleStep =>
          /\ Len(rain_blobs') <= Len(rain_blobs) + 1
          /\ (rain_state' = "RAINING" /\ (Len(rain_blobs) < 20 \/ RoomAfterRemoval(rain_blobs)))
                 => /\ rain_blobs' # <<>>
                    /\ rain_blobs'[Len(rain_blobs')].life = 100]_vars

\* C19 amended: an update step spawns, then decays, then removes: it adds at
\* most one particle; it spawns when it is raining and fewer than 20 particles
\* are in the list before the step (the removal of the same step makes no
\* room), and the particle it spawns takes its first decrement in that same
\* step, ending it with the life 0.99; no particle has the life 1.0 at the end
\* of a step.
C19_SpawnDecayRemove ==
    [][SampleStep =>
          /\ Len(rain_blobs') <= Len(rain_blobs) + 1
          /\ IF rain_state' = "RAINING" /\ Len(rain_blobs) < 20
             THEN rain_blobs' # <<>> /\ rain_blobs'[Len(rain_blobs')].life = 99
             ELSE ~NewestIsFresh(rain_blobs')
          /\ \A i \in 1..Len(rain_blobs') : rain_blobs'[i].life < 100]_vars

\* C19 witness: the 101st RAINING sample in a row found 19 particles: it
\* spawned one, which has the life 0.99, and the same step dropped an expired
\* one, so 19 are left.
C19_Witness ==
    /\ last_event = "sample"
    /\ n_samples = 101
    /\ AllRaining(weather_history)
    /\ Len(rain_blobs) = 19
    /\ NewestIsFresh(rain_blobs)
    /\ rain_blobs[1].life = 1

-----------------------------------------------------------------------------
(* C20 *)

\* where the particle is drawn: its angle, distance and size
Placement(b) == <<b.angle, b.dist, b.size>>

-----------------------------------------------------------------------------
(* C21 *)

\* the step delivered a stream message
DataStep == last_event' \in {"sample", "ignored"}

\* the message has no 'frame', or its frame has no 'weather'
NoPayload(data) == "frame" \notin DOMAIN data \/ "weather" \notin DOMAIN data["frame"]

\* the history, the current weather, the particles, the sweep and the charts
simulation_state ==
    <<weather_history, current_weather, wind_speed, wind_direction, rain_state,
      humidity, air_temp, track_temp, rain_blobs, sweep_angle, track_line,
      air_line, humid_line>>

\* C21: a connection-status event and a stream message with no 'frame', or
\* whose frame has no 'weather', leave the history, the current weather, the
\* particle list and the sweep angle exactly as they were; the message changes
\* nothing of what the window presents either, and the status event changes
\* only the presented connection state.
C21_NoPayloadNoChange ==
    /\ [][(DataStep /\ NoPayload(last_data')) =>
             /\ simulation_state' = simulation_state
             /\ window_title' = window_title
             /\ status_bar' = status_bar]_vars
    /\ [][StatusStep =>
             /\ simulation_state' = simulation_state
             /\ status_bar' = StatusText(last_status')]_vars

\* C21 witness: after two RAINING samples, two ticks and a Disconnected status
\* a frame without weather was delivered: the two particles, the two entries
\* and the sweep are as the earlier steps left them.
C21_Witness ==
    /\ last_event = "ignored"
    /\ last_data = [frame |-> [t |-> 3]]
    /\ Presented = "Disconnected"
    /\ Len(weather_history) = 2
    /\ Len(rain_blobs) = 2
    /\ rain_blobs[1].life = 98
    /\ rain_state = "RAINING"
    /\ sweep_angle = 10

====
